---------------------------- MODULE Spec2Model ----------------------------
(***************************************************************************)
(* The append log that tim keeps in the Workers KV namespace TIMDB: a      *)
(* counter at key prefix:0, entries at keys prefix:1, prefix:2, ..., the   *)
(* reverse scans over them, and the per-day activity summary.              *)
(*                                                                         *)
(* One stream (one prefix) is modelled; a key is the number after the      *)
(* colon.  Every await on TIMDB is one step of a process, so calls of      *)
(* different processes interleave between store accesses.                  *)
(***************************************************************************)
EXTENDS Integers, Sequences, FiniteSets

(***************************************************************************)
(* Bounds of the model.                                                    *)
(***************************************************************************)
\* Calls that advance the counter (Append, Advance) are started at most
\* MaxSlot times, so the keys in use are 0..MaxSlot.
MaxSlot == 3
\* The clock moves at most MaxTicks hours past midnight where days are
\* summarised, and at most MaxLogTicks hours where the log alone is exercised.
MaxTicks == 5
MaxLogTicks == 1

(***************************************************************************)
(* Values.                                                                 *)
(***************************************************************************)
\* The number of milliseconds in an hour.
MSInHour == 60 * 60 * 1000

MSInDay == 24 * MSInHour

\* The instant the model starts at: a midnight (UTC is the local zone).
Midnight == MSInDay

\* new Date().setHours(0, 0, 0, 0): 00:00 of the day `now` falls in.
StartOfDay(now) == now - (now % MSInDay)

RecordActivitySwitch == "activity-switch"
DailySummary == "day-summary"

\* The intents of the entries written (start-cmd is handled like day-summary
\* by everything modelled here).
NLIntent == {DailySummary, RecordActivitySwitch}

\* Two of the seven activities.
Activity == {"sleep", "school"}

Undefined == "undefined"

\* An NLLog as TelegramHandler builds it: meta.activity is set only for an
\* activity switch.
NLLog(timestamp, intent, activity) ==
    [timestamp |-> timestamp, intent |-> intent,
     activity |-> IF intent = RecordActivitySwitch THEN activity ELSE Undefined]

\* What a request is classified as: <<intent, activity>>.
Requests ==
    {<<DailySummary, Undefined>>} \cup
    {<<RecordActivitySwitch, a>> : a \in Activity}

(***************************************************************************)
(* Values of the store.  A key holds nothing (get gives null), a decimal   *)
(* text (the counter) or a JSON text (an entry).                           *)
(***************************************************************************)
Null == [kind |-> "null"]

Digits == <<"0", "1", "2", "3", "4", "5", "6", "7", "8", "9">>

RECURSIVE DecimalChars(_)
DecimalChars(n) ==
    IF n < 10 THEN <<Digits[n + 1]>>
    ELSE Append(DecimalChars(n \div 10), Digits[(n % 10) + 1])

\* (n).toString() of a non-negative integer.
ToString(n) == [kind |-> "text", chars |-> DecimalChars(n)]

DigitValue(c) == CHOOSE d \in 0..9 : Digits[d + 1] = c

RECURSIVE CharsValue(_)
CharsValue(cs) ==
    IF Len(cs) = 0 THEN 0
    ELSE 10 * CharsValue(SubSeq(cs, 1, Len(cs) - 1)) + DigitValue(cs[Len(cs)])

\* +first of a decimal text.
ToNumber(v) == CharsValue(v.chars)

\* JSON.stringify(log): a member that is undefined is left out.
JSONStringify(log) ==
    [kind |-> "json",
     obj |-> IF log.activity = Undefined
             THEN [timestamp |-> log.timestamp, intent |-> log.intent]
             ELSE log]

\* TIMDB.get(key, 'json') followed by JSONToObj: a member the text lacks
\* reads as undefined.
JSONToObj(v) ==
    IF "activity" \in DOMAIN v.obj THEN v.obj
    ELSE [timestamp |-> v.obj.timestamp, intent |-> v.obj.intent,
          activity |-> Undefined]

Keys == 0..MaxSlot

(***************************************************************************)
(* The filters the handlers pass to the scans.                             *)
(***************************************************************************)
\* GetUserCurrentActivity: v.meta.intent == NLIntent.RecordActivitySwitch
IsSwitch == [name |-> "switch", searchDate |-> 0]

\* GetActivitySummaryForDay: v.timestamp > searchDate
Since(searchDate) == [name |-> "since", searchDate |-> searchDate]

filter(f, v) ==
    IF f.name = "switch" THEN v.intent = RecordActivitySwitch
    ELSE v.timestamp > f.searchDate

(***************************************************************************)
(* The activity summary.                                                   *)
(***************************************************************************)
\* summary.set on a Map, kept as a function on the keys set.
MapSet(summary, k, x) ==
    [a \in DOMAIN summary \cup {k} |-> IF a = k THEN x ELSE summary[a]]

EmptyMap == [a \in {} |-> 0]

\* The boundary the loop subtracts log[i].timestamp from.  The source
\* indexes from 0; i here is the source's i + 1.
Boundary(log, i, now) ==
    IF i = Len(log) THEN now ELSE log[i + 1].timestamp

\* Timestamps are whole hours in this model, so the division is exact.
Duration(log, i, now) ==
    (Boundary(log, i, now) - log[i].timestamp) \div MSInHour

\* summary.get(activity), and if (!existing) existing = 0: undefined (no
\* such key) and 0 both count as 0.
Existing(summary, k) == IF k \in DOMAIN summary THEN summary[k] ELSE 0

RECURSIVE Tally(_, _, _, _)
Tally(log, i, summary, now) ==
    IF i > Len(log) THEN summary
    ELSE IF log[i].intent # RecordActivitySwitch
         THEN Tally(log, i + 1, summary, now)
         ELSE Tally(log, i + 1,
                    MapSet(summary, log[i].activity,
                           Existing(summary, log[i].activity)
                             + Duration(log, i, now)),
                    now)

(***************************************************************************)
(* State.                                                                  *)
(***************************************************************************)
VARIABLES
    TIMDB,      \* the store: key -> value
    clock,      \* Date.now()
    frame,      \* per process: the call it is in and that call's locals
    appended,   \* history: the values handed to Append, in call order
    advanced,   \* history: how many times Advance was called on its own
    peeked,     \* history: Peek or a scan was called
    down,       \* the store is unavailable: a get or put awaited now fails
    lost        \* history: the slots of the Appends whose slot put failed

vars == <<TIMDB, clock, frame, appended, advanced, peeked, down, lost>>

Procs == DOMAIN frame

NoValue == [kind |-> "none"]

Idle ==
    [op |-> "none", pc |-> "idle", inc |-> FALSE, value |-> NoValue,
     filter |-> IsSwitch, first |-> Null, idx |-> 0, collect |-> <<>>,
     now |-> 0, ret |-> NoValue]

\* What a call returns.
RetInt(n) == [kind |-> "int", n |-> n]
RetVoid == [kind |-> "void"]
RetNull == [kind |-> "null"]
RetObj(v) == [kind |-> "obj", obj |-> v]
RetList(c) == [kind |-> "list", list |-> c]
RetMap(m) == [kind |-> "map", map |-> m]

CanCall(p) == frame[p].pc \in {"idle", "done"}

\* Advance and Append calls started so far.
Advances == Len(appended) + advanced

TypeOK ==
    /\ TIMDB \in [Keys -> UNION {{Null}, {ToString(n) : n \in 1..(MaxSlot + 1)},
                                 {[kind |-> "malformed", json |-> b] : b \in BOOLEAN},
                                 {JSONStringify(NLLog(Midnight + h * MSInHour, r[1], r[2])) :
                                     h \in 0..MaxTicks, r \in Requests}}]
    /\ clock \in {Midnight + h * MSInHour : h \in 0..MaxTicks}
    /\ advanced \in 0..MaxSlot
    /\ peeked \in BOOLEAN
    /\ down \in BOOLEAN
    /\ lost \subseteq 1..MaxSlot

InitWith(procs) ==
    /\ TIMDB = [k \in Keys |-> Null]
    /\ clock = Midnight
    /\ frame = [p \in procs |-> Idle]
    /\ appended = <<>>
    /\ advanced = 0
    /\ peeked = FALSE
    /\ down = FALSE
    /\ lost = {}

Init == InitWith({1})

(***************************************************************************)
(* Calls.                                                                  *)
(***************************************************************************)
\* const now = Date.now() moving on.
Tick(max) ==
    /\ clock < Midnight + max * MSInHour
    /\ clock' = clock + MSInHour
    /\ UNCHANGED <<TIMDB, frame, appended, advanced, peeked, down, lost>>

\* Peek: PrefixedCounterValue(prefix, false)
CallPeek(p) ==
    /\ CanCall(p)
    /\ frame' = [frame EXCEPT ![p] = [Idle EXCEPT !.op = "Peek", !.pc = "counter_get"]]
    /\ peeked' = TRUE
    /\ UNCHANGED <<TIMDB, clock, appended, advanced, down, lost>>

\* Advance: PrefixedCounterValue(prefix, true)
CallAdvance(p) ==
    /\ CanCall(p)
    /\ Advances < MaxSlot
    /\ frame' = [frame EXCEPT ![p] =
                    [Idle EXCEPT !.op = "Advance", !.pc = "counter_get", !.inc = TRUE]]
    /\ advanced' = advanced + 1
    /\ UNCHANGED <<TIMDB, clock, appended, peeked, down, lost>>

\* Append: WritePrefixedCounterValue(prefix, JSON.stringify(log)) with the log
\* TelegramHandler builds: log.timestamp = Date.now().
CallAppend(p, r) ==
    /\ CanCall(p)
    /\ Advances < MaxSlot
    /\ LET value == JSONStringify(NLLog(clock, r[1], r[2])) IN
         /\ frame' = [frame EXCEPT ![p] =
                         [Idle EXCEPT !.op = "Append", !.pc = "counter_get",
                                      !.inc = TRUE, !.value = value]]
         /\ appended' = Append(appended, value)
    /\ UNCHANGED <<TIMDB, clock, advanced, peeked, down, lost>>

\* FindLast: GetLastPrefixedCounterValue(prefix, NLLog, filter)
CallFindLast(p, f) ==
    /\ CanCall(p)
    /\ frame' = [frame EXCEPT ![p] =
                    [Idle EXCEPT !.op = "FindLast", !.pc = "counter_get", !.filter = f]]
    /\ peeked' = TRUE
    /\ UNCHANGED <<TIMDB, clock, appended, advanced, down, lost>>

\* CollectLast: GetLastPrefixedCounterSet(prefix, NLLog, filter)
CallCollectLast(p, f) ==
    /\ CanCall(p)
    /\ frame' = [frame EXCEPT ![p] =
                    [Idle EXCEPT !.op = "CollectLast", !.pc = "counter_get", !.filter = f]]
    /\ peeked' = TRUE
    /\ UNCHANGED <<TIMDB, clock, appended, advanced, down, lost>>

\* GetActivitySummaryForDay(user): searchDate is taken before the scan; the
\* fourth argument (addone) is one GetLastPrefixedCounterSet does not have.
CallSummary(p) ==
    /\ CanCall(p)
    /\ frame' = [frame EXCEPT ![p] =
                    [Idle EXCEPT !.op = "Summary", !.pc = "counter_get",
                                 !.filter = Since(StartOfDay(clock))]]
    /\ peeked' = TRUE
    /\ UNCHANGED <<TIMDB, clock, appended, advanced, down, lost>>

(***************************************************************************)
(* Steps of a call: one per await on TIMDB.  Each operator below gives the *)
(* frame a process has once the code has run on to its next await or to    *)
(* its return.                                                             *)
(***************************************************************************)
Put(db, key, v) == [db EXCEPT ![key] = v]

\* A call has returned ret: its locals are gone, what it was called with and
\* what it returned are kept for the record.
Done(f, ret) ==
    [Idle EXCEPT !.op = f.op, !.pc = "done", !.filter = f.filter,
                 !.value = f.value, !.ret = ret]

\* The scans return: null from FindLast, collect from CollectLast; the
\* summary is tallied from collect (log) as soon as the scan has returned, and
\* the log and the Date.now() it was tallied with stay on record.
ScanEnd(f, now) ==
    CASE f.op = "FindLast" -> Done(f, RetNull)
      [] f.op = "CollectLast" -> Done(f, RetList(f.collect))
      [] OTHER -> [Done(f, RetMap(Tally(f.collect, 1, EmptyMap, now)))
                      EXCEPT !.collect = f.collect, !.now = now]

\* for (; idx > 0; idx--): the test before a slot is read.
LoopTest(f, now) ==
    IF f.idx > 0 THEN [f EXCEPT !.pc = "slot_get"] ELSE ScanEnd(f, now)

\* Mutant: a slot the filter rejects ends the search.
FindBody_StopAtMiss(f, val, now) ==
    IF val = Null THEN ScanEnd(f, now)
    ELSE IF filter(f.filter, JSONToObj(val))
         THEN Done(f, RetObj(JSONToObj(val)))
         ELSE ScanEnd(f, now)

\* The loop body of GetLastPrefixedCounterValue after the get of slot idx.
FindBody(f, val, now) ==
    IF val = Null THEN ScanEnd(f, now)
    ELSE IF filter(f.filter, JSONToObj(val))
         THEN Done(f, RetObj(JSONToObj(val)))
         ELSE LoopTest([f EXCEPT !.idx = f.idx - 1], now)

\* Mutant: a slot the filter rejects is skipped, and the scan goes on.
CollectBody_SkipMiss(f, val, now) ==
    IF val = Null THEN ScanEnd(f, now)
    ELSE IF ~filter(f.filter, JSONToObj(val))
         THEN LoopTest([f EXCEPT !.idx = f.idx - 1], now)
         ELSE LoopTest([f EXCEPT !.idx = f.idx - 1,
                                 !.collect = Append(f.collect, JSONToObj(val))],
                       now)

\* Mutant: a missing slot is skipped, and the scan goes on.
CollectBody_SkipGap(f, val, now) ==
    IF val = Null THEN LoopTest([f EXCEPT !.idx = f.idx - 1], now)
    ELSE IF ~filter(f.filter, JSONToObj(val))
         THEN ScanEnd(f, now)
         ELSE LoopTest([f EXCEPT !.idx = f.idx - 1,
                                 !.collect = Append(f.collect, JSONToObj(val))],
                       now)

\* The loop body of GetLastPrefixedCounterSet after the get of slot idx.
CollectBody(f, val, now) ==
    IF val = Null THEN ScanEnd(f, now)
    ELSE IF ~filter(f.filter, JSONToObj(val))
         THEN ScanEnd(f, now)
         ELSE LoopTest([f EXCEPT !.idx = f.idx - 1,
                                 !.collect = Append(f.collect, JSONToObj(val))],
                       now)

\* Mutant: a scan starts at slot n, not at slot n - 1.
CounterReturn_StartAtPeek(f, n, now) ==
    CASE f.op \in {"Peek", "Advance"} -> Done(f, RetInt(n))
      [] f.op = "Append" -> [f EXCEPT !.pc = "slot_put", !.idx = n, !.first = Null]
      [] OTHER -> [f EXCEPT !.pc = "slot_get", !.idx = n, !.first = Null]

\* PrefixedCounterValue returns n to the call that made it.
CounterReturn(f, n, now) ==
    CASE f.op \in {"Peek", "Advance"} -> Done(f, RetInt(n))
      [] f.op = "Append" -> [f EXCEPT !.pc = "slot_put", !.idx = n, !.first = Null]
      [] OTHER -> LoopTest([f EXCEPT !.idx = n - 1, !.first = Null], now)

\* Mutant: the counter is put back as it was read.
CounterPutValue_NoInc(first, inc) ==
    IF first = Null THEN (IF inc THEN ToString(2) ELSE ToString(1))
    ELSE ToString(ToNumber(first))

\* Mutant: an absent counter is initialised to 2 whether or not inc is set.
CounterPutValue_InitTwo(first, inc) ==
    IF first = Null THEN ToString(2)
    ELSE ToString(ToNumber(first) + 1)

\* What PrefixedCounterValue puts at the counter key, having read first.
CounterPutValue(first, inc) ==
    IF first = Null THEN (IF inc THEN ToString(2) ELSE ToString(1))
    ELSE ToString(ToNumber(first) + 1)

\* Mutant: the value after the increment is returned.
CounterResult_Next(first) == IF first = Null THEN 1 ELSE ToNumber(first) + 1

\* What PrefixedCounterValue returns, having read first.
CounterResult(first) == IF first = Null THEN 1 ELSE ToNumber(first)

\* const first = await TIMDB.get(idxkey)
CounterGet(p) ==
    /\ frame[p].pc = "counter_get"
    /\ LET first == TIMDB[0]
           f == [frame[p] EXCEPT !.first = first]
       IN frame' = [frame EXCEPT ![p] =
                       IF first = Null \/ f.inc
                       THEN [f EXCEPT !.pc = "counter_put"]
                       ELSE CounterReturn(f, CounterResult(first), clock)]
    /\ UNCHANGED <<TIMDB, clock, appended, advanced, peeked, down, lost>>

\* await TIMDB.put(idxkey, ...)
CounterPut(p) ==
    /\ frame[p].pc = "counter_put"
    /\ TIMDB' = Put(TIMDB, 0, CounterPutValue(frame[p].first, frame[p].inc))
    /\ frame' = [frame EXCEPT ![p] =
                    CounterReturn(frame[p], CounterResult(frame[p].first), clock)]
    /\ UNCHANGED <<clock, appended, advanced, peeked, down, lost>>

\* return TIMDB.put(`${prefix}:${idx}`, value)
SlotPut(p) ==
    /\ frame[p].pc = "slot_put"
    /\ TIMDB' = Put(TIMDB, frame[p].idx, frame[p].value)
    /\ frame' = [frame EXCEPT ![p] = Done(frame[p], RetVoid)]
    /\ UNCHANGED <<clock, appended, advanced, peeked, down, lost>>

\* const val = await TIMDB.get(`${prefix}:${idx}`, 'json')
SlotGet(p) ==
    /\ frame[p].pc = "slot_get"
    /\ frame' = [frame EXCEPT ![p] =
                    IF frame[p].op = "FindLast"
                    THEN FindBody(frame[p], TIMDB[frame[p].idx], clock)
                    ELSE CollectBody(frame[p], TIMDB[frame[p].idx], clock)]
    /\ UNCHANGED <<TIMDB, clock, appended, advanced, peeked, down, lost>>

\* The filters of the handlers, for the midnights the clock can show.
Filters == {IsSwitch, Since(Midnight)}

\* The helpers, called one at a time.
Next ==
    \/ Tick(MaxLogTicks)
    \/ \E p \in Procs : CallPeek(p)
    \/ \E p \in Procs : CallAdvance(p)
    \/ \E p \in Procs, r \in Requests : CallAppend(p, r)
    \/ \E p \in Procs, f \in Filters : CallFindLast(p, f)
    \/ \E p \in Procs, f \in Filters : CallCollectLast(p, f)
    \/ \E p \in Procs : CounterGet(p)
    \/ \E p \in Procs : CounterPut(p)
    \/ \E p \in Procs : SlotPut(p)
    \/ \E p \in Procs : SlotGet(p)

Spec == Init /\ [][Next]_vars

\* A day of requests, handled one at a time: entries are appended as the
\* clock moves on, and the day is summarised.
NextDay ==
    \/ Tick(MaxTicks)
    \/ \E p \in Procs, r \in Requests : CallAppend(p, r)
    \/ \E p \in Procs : CallSummary(p)
    \/ \E p \in Procs : CounterGet(p)
    \/ \E p \in Procs : CounterPut(p)
    \/ \E p \in Procs : SlotPut(p)
    \/ \E p \in Procs : SlotGet(p)

SpecDay == Init /\ [][NextDay]_vars

\* Two requests in flight at once: their store accesses interleave.
InitRace == InitWith({1, 2})

NextRace ==
    \/ \E p \in Procs : CallPeek(p)
    \/ \E p \in Procs, r \in Requests : CallAppend(p, r)
    \/ \E p \in Procs : CallFindLast(p, IsSwitch)
    \/ \E p \in Procs : CallCollectLast(p, IsSwitch)
    \/ \E p \in Procs : CounterGet(p)
    \/ \E p \in Procs : CounterPut(p)
    \/ \E p \in Procs : SlotPut(p)
    \/ \E p \in Procs : SlotGet(p)

SpecRace == InitRace /\ [][NextRace]_vars

(***************************************************************************)
(* What the claims are stated with.                                        *)
(***************************************************************************)
\* No call is in progress.
Quiet == \A p \in Procs : CanCall(p)

Returned(p, op) == frame[p].op = op /\ frame[p].pc = "done"

\* Process p takes a step of the call op it is in.
StepOf(p, op) ==
    /\ frame[p].op = op
    /\ ~CanCall(p)
    /\ frame'[p] # frame[p]

\* The newest slot according to the counter: Peek - 1.
Top == (IF TIMDB[0] = Null THEN 1 ELSE ToNumber(TIMDB[0])) - 1

Gaps == {k \in 1..Top : TIMDB[k] = Null}

GapFree == Gaps = {}

Entry(k) == JSONToObj(TIMDB[k])

\* The slots at or below Top that hold an entry the filter accepts.
Matches(f) == {k \in 1..Top : TIMDB[k] # Null /\ filter(f, Entry(k))}

Max(S) == CHOOSE x \in S : \A y \in S : y <= x

\* The length of the run of accepted entries from slot Top downward.
RunLen(f) == Max({m \in 0..Top : \A j \in 1..m : (Top - j + 1) \in Matches(f)})

\* C1: after N Append calls made one after the other on an empty stream (no
\* Advance on its own, no call in progress), slot k holds the k-th value
\* appended for every k in 1..N, no other slot is written, the counter reads
\* N + 1, and a Peek that has just returned, returned N + 1.
C1_SequentialAppends ==
    (advanced = 0 /\ Quiet) =>
        LET N == Len(appended) IN
          /\ \A k \in 1..N : TIMDB[k] = appended[k]
          /\ \A k \in (N + 1)..MaxSlot : TIMDB[k] = Null
          /\ N > 0 => TIMDB[0] = ToString(N + 1)
          /\ \A p \in Procs : Returned(p, "Peek") => frame[p].ret = RetInt(N + 1)

C1_Witness ==
    /\ advanced = 0
    /\ Len(appended) = 3
    /\ appended[1] # appended[2]
    /\ appended[2] # appended[3]
    /\ \E p \in Procs : Returned(p, "Peek") /\ frame[p].ret = RetInt(4)

\* C2: the step that completes an Advance returns the value the counter held
\* and leaves the counter one higher; on an absent counter it returns 1 and
\* leaves 2.  No other step of an Advance writes, and no slot is written.
C2_AdvanceAlone ==
    [][\A p \in Procs :
          StepOf(p, "Advance") =>
             IF frame'[p].pc # "done" THEN TIMDB' = TIMDB
             ELSE IF TIMDB[0] = Null
                  THEN /\ frame'[p].ret = RetInt(1)
                       /\ TIMDB' = Put(TIMDB, 0, ToString(2))
                  ELSE /\ frame'[p].ret = RetInt(ToNumber(TIMDB[0]))
                       /\ TIMDB' = Put(TIMDB, 0, ToString(ToNumber(TIMDB[0]) + 1))]_vars

C2_Witness ==
    \E p \in Procs :
        /\ Returned(p, "Advance")
        /\ frame[p].ret = RetInt(2)
        /\ TIMDB[0] = ToString(3)

\* C3: the step that completes a Peek on an absent counter returns 1 and puts
\* 1 at the counter key, nothing else; and while the counter holds 1 a Peek
\* returns 1 at its first step and writes nothing.
C3_PeekInitialises ==
    [][\A p \in Procs :
          StepOf(p, "Peek") =>
             /\ (TIMDB[0] = Null /\ frame'[p].pc = "done") =>
                   /\ frame'[p].ret = RetInt(1)
                   /\ TIMDB' = Put(TIMDB, 0, ToString(1))
             /\ (TIMDB[0] = Null /\ frame'[p].pc # "done") => TIMDB' = TIMDB
             /\ TIMDB[0] = ToString(1) =>
                   /\ frame'[p].pc = "done"
                   /\ frame'[p].ret = RetInt(1)
                   /\ TIMDB' = TIMDB]_vars

C3_Witness ==
    /\ appended = <<>>
    /\ advanced = 0
    /\ TIMDB[0] = ToString(1)
    /\ \E p \in Procs : Returned(p, "Peek") /\ frame[p].ret = RetInt(1)

\* C4: every step of a Peek on a stream whose counter is present with value v
\* completes the Peek, returns v and leaves the whole store as it was.
C4_PeekIdempotent ==
    [][\A p \in Procs :
          (StepOf(p, "Peek") /\ TIMDB[0] # Null) =>
             /\ frame'[p].pc = "done"
             /\ frame'[p].ret = RetInt(ToNumber(TIMDB[0]))
             /\ TIMDB' = TIMDB]_vars

C4_Witness ==
    /\ TIMDB[0] = ToString(3)
    /\ TIMDB[1] # Null
    /\ \E p \in Procs : Returned(p, "Peek") /\ frame[p].ret = RetInt(3)

\* C5: on a stream without gaps, FindLast returns the entry of the highest
\* slot the filter accepts, and null exactly when the filter accepts no slot
\* (an empty stream included).
C5_FindLast ==
    \A p \in Procs :
        (Returned(p, "FindLast") /\ GapFree) =>
            frame[p].ret =
                IF Matches(frame[p].filter) = {} THEN RetNull
                ELSE RetObj(Entry(Max(Matches(frame[p].filter))))

C5_Witness ==
    \E p \in Procs :
        /\ Returned(p, "FindLast")
        /\ GapFree
        /\ Top = 3
        /\ Matches(frame[p].filter) = {1}
        /\ frame[p].ret = RetObj(Entry(1))

\* C6: on a stream without gaps, CollectLast returns the entries of slots
\* Top, Top - 1, ..., Top - m + 1 in that order, m being the length of the run
\* of accepted entries from slot Top downward (0 when slot Top is not accepted).
C6_CollectLast ==
    \A p \in Procs :
        (Returned(p, "CollectLast") /\ GapFree) =>
            /\ frame[p].ret.kind = "list"
            /\ Len(frame[p].ret.list) = RunLen(frame[p].filter)
            /\ \A i \in 1..Len(frame[p].ret.list) :
                  frame[p].ret.list[i] = Entry(Top - i + 1)

C6_Witness ==
    \E p \in Procs :
        /\ Returned(p, "CollectLast")
        /\ GapFree
        /\ Top = 3
        /\ Matches(frame[p].filter) = {1, 3}
        /\ frame[p].ret = RetList(<<Entry(3)>>)

\* C7: with a gap at or below Top, CollectLast returns a list of accepted
\* entries taken from consecutive slots from Top downward, all above the
\* highest gap; FindLast returns the entry of the highest accepted slot above
\* the highest gap, and null when there is none.  Both return: neither fails.
C7_GapEndsScan ==
    \A p \in Procs :
        ~GapFree =>
            /\ Returned(p, "CollectLast") =>
                  /\ frame[p].ret.kind = "list"
                  /\ \A i \in 1..Len(frame[p].ret.list) :
                        /\ Top - i + 1 > Max(Gaps)
                        /\ (Top - i + 1) \in Matches(frame[p].filter)
                        /\ frame[p].ret.list[i] = Entry(Top - i + 1)
            /\ Returned(p, "FindLast") =>
                  LET above == {k \in Matches(frame[p].filter) : k > Max(Gaps)} IN
                    frame[p].ret =
                        IF above = {} THEN RetNull ELSE RetObj(Entry(Max(above)))

\* A 3-slot stream with slot 2 missing and slots 1 and 3 both accepted.
C7_Witness ==
    \E p \in Procs :
        /\ Returned(p, "CollectLast")
        /\ Top = 3
        /\ Gaps = {2}
        /\ Matches(frame[p].filter) = {1, 3}
        /\ frame[p].ret = RetList(<<Entry(3)>>)

\* The two values handed to Append are in slots 1 and 2, in either order.
BothStored ==
    \/ TIMDB[1] = appended[1] /\ TIMDB[2] = appended[2]
    \/ TIMDB[1] = appended[2] /\ TIMDB[2] = appended[1]

\* Slot 1 holds one of the two values and no other slot holds anything.
OneStored ==
    /\ TIMDB[1] \in {appended[1], appended[2]}
    /\ \A k \in 2..MaxSlot : TIMDB[k] = Null

\* Two Append calls, and no other call, were made on the empty stream and
\* both have returned.
TwoAppendsOver ==
    /\ Quiet
    /\ ~peeked
    /\ advanced = 0
    /\ Len(appended) = 2

\* C8 as claimed: two Append calls in flight together on an empty stream end
\* with the counter at 3 and either both entries in slots 1 and 2, or one of
\* them in slot 1 and the other nowhere.
C8_Original ==
    TwoAppendsOver =>
        /\ TIMDB[0] = ToString(3)
        /\ BothStored \/ OneStored

\* C8, amended: two Append calls in flight together on an empty stream end
\* either with both entries in slots 1 and 2 and the counter at 3, or with one
\* of them in slot 1, the other nowhere, and the counter at 2.
C8_TwoAppends ==
    TwoAppendsOver =>
        \/ TIMDB[0] = ToString(3) /\ BothStored
        \/ TIMDB[0] = ToString(2) /\ OneStored

\* The race: two different entries, one of them lost.
C8_Witness ==
    /\ TwoAppendsOver
    /\ appended[1] # appended[2]
    /\ TIMDB[0] = ToString(2)
    /\ OneStored

\* The other outcome, reached by the same two calls.
C8_NoRaceReached ==
    /\ TwoAppendsOver
    /\ appended[1] # appended[2]
    /\ frame[1].op = "Append" /\ frame[2].op = "Append"
    /\ TIMDB[0] = ToString(3)
    /\ BothStored

\* The entries of a log that record an activity switch, in the log's order.
IsSwitchEntry(e) == e.intent = RecordActivitySwitch

Retained(log) == SelectSeq(log, IsSwitchEntry)

\* The place in log of the i-th retained entry.
Place(log, i) ==
    CHOOSE j \in 1..Len(log) :
        /\ IsSwitchEntry(log[j])
        /\ Cardinality({k \in 1..j : IsSwitchEntry(log[k])}) = i

\* C9 as claimed: the duration the summary credits to the i-th retained entry
\* (newest first) is the time from its timestamp to the current instant for
\* the newest one, and to the timestamp of the retained entry before it in
\* the sequence (the next more recent one) for every other, in hours.
C9_Original ==
    \A p \in Procs :
        Returned(p, "Summary") =>
            LET log == frame[p].collect
                kept == Retained(log)
            IN \A i \in 1..Len(kept) :
                  Duration(log, Place(log, i), frame[p].now) =
                      ((IF i = 1 THEN frame[p].now ELSE kept[i - 1].timestamp)
                          - kept[i].timestamp) \div MSInHour

\* Scenario B: switches to sleep, school, sleep at t, t + 1h, t + 3h, where
\* t is one hour past midnight.
ScenarioB ==
    /\ TIMDB[0] = ToString(4)
    /\ TIMDB[1] = JSONStringify(NLLog(Midnight + 1 * MSInHour, RecordActivitySwitch, "sleep"))
    /\ TIMDB[2] = JSONStringify(NLLog(Midnight + 2 * MSInHour, RecordActivitySwitch, "school"))
    /\ TIMDB[3] = JSONStringify(NLLog(Midnight + 4 * MSInHour, RecordActivitySwitch, "sleep"))

\* C10 as claimed: scenario B summarised at t + 4h with the day starting at
\* t - 1h gives sleep 2 hours and school 2 hours, and nothing else.
C10_Original ==
    \A p \in Procs :
        ( /\ Returned(p, "Summary")
          /\ ScenarioB
          /\ frame[p].filter = Since(Midnight)
          /\ frame[p].now = Midnight + 5 * MSInHour ) =>
            frame[p].ret = RetMap([a \in {"sleep", "school"} |-> 2])

\* A log without its j-th entry.
RemoveAt(log, j) == SubSeq(log, 1, j - 1) \o SubSeq(log, j + 1, Len(log))

\* The j-th entry of a log is no switch and lies between two switches.
BetweenSwitches(log, j) ==
    /\ ~IsSwitchEntry(log[j])
    /\ \E i \in 1..(j - 1) : IsSwitchEntry(log[i])
    /\ \E i \in (j + 1)..Len(log) : IsSwitchEntry(log[i])

\* C11 as claimed: entries that are no switch are discarded before durations
\* are computed, so the totals of a summary are those the same log gives with
\* any one non-switch entry between two switch entries removed.
C11_Original ==
    \A p \in Procs :
        Returned(p, "Summary") =>
            LET log == frame[p].collect IN
              \A j \in 1..Len(log) :
                  BetweenSwitches(log, j) =>
                      frame[p].ret.map =
                          Tally(RemoveAt(log, j), 1, EmptyMap, frame[p].now)

\* C12 as claimed: the summary is the empty mapping when no entry qualifies
\* (no slot, or the newest entry not later than the start of the day), and
\* with exactly one switch entry retained it is that entry's category alone,
\* with the hours from its timestamp to now.
C12_Original ==
    \A p \in Procs :
        Returned(p, "Summary") =>
            LET log == frame[p].collect
                kept == Retained(log)
            IN /\ frame[p].ret.kind = "map"
               /\ (Top = 0 \/ TIMDB[Top] = Null
                     \/ ~filter(frame[p].filter, Entry(Top))) =>
                     frame[p].ret.map = EmptyMap
               /\ Len(kept) = 1 =>
                     frame[p].ret.map =
                         [a \in {kept[1].activity} |->
                             (frame[p].now - kept[1].timestamp) \div MSInHour]

\* The entries in the slots are in the order of their timestamps.
TimeOrdered ==
    \A j, k \in 1..Top :
        (j < k /\ TIMDB[j] # Null /\ TIMDB[k] # Null) =>
            Entry(j).timestamp <= Entry(k).timestamp

\* C18 as claimed: with timestamps that do not decrease from slot to slot and
\* a current instant not before the newest entry, every duration the summary
\* adds is non-negative, and so is every total it returns.
C18_Original ==
    \A p \in Procs :
        ( /\ Returned(p, "Summary")
          /\ TimeOrdered
          /\ Top > 0 => (TIMDB[Top] # Null /\ frame[p].now >= Entry(Top).timestamp) ) =>
            LET log == frame[p].collect IN
              /\ \A i \in 1..Len(log) :
                    IsSwitchEntry(log[i]) => Duration(log, i, frame[p].now) >= 0
              /\ \A a \in DOMAIN frame[p].ret.map : frame[p].ret.map[a] >= 0

\* C15: with calls made one after the other, no step changes or removes the
\* value of a slot key that holds an entry.
C15_EntriesImmutable ==
    [][\A k \in 1..MaxSlot : TIMDB[k] # Null => TIMDB'[k] = TIMDB[k]]_vars

\* Two entries are in place and an Append after the first has returned.
C15_Witness ==
    /\ TIMDB[1] # Null
    /\ TIMDB[2] # Null
    /\ TIMDB[1] # TIMDB[2]
    /\ Len(appended) = 3
    /\ \E p \in Procs : Returned(p, "Append")

\* C16: no step of a FindLast or CollectLast writes a slot key; a step writes
\* nothing at all when the counter is present, and when it is absent the only
\* write is 1 at the counter key.
C16_ScansReadOnly ==
    [][\A p \in Procs :
          (StepOf(p, "FindLast") \/ StepOf(p, "CollectLast")) =>
             /\ \A k \in 1..MaxSlot : TIMDB'[k] = TIMDB[k]
             /\ TIMDB[0] # Null => TIMDB' = TIMDB
             /\ TIMDB[0] = Null =>
                   (TIMDB' = TIMDB \/ TIMDB' = Put(TIMDB, 0, ToString(1)))]_vars

\* A scan of an untouched stream has returned, having initialised the counter.
C16_Witness ==
    /\ appended = <<>>
    /\ advanced = 0
    /\ TIMDB[0] = ToString(1)
    /\ \E p \in Procs : Returned(p, "CollectLast") /\ frame[p].ret = RetList(<<>>)

\* The slot keys that hold a value.
Present == {k \in 1..MaxSlot : TIMDB[k] # Null}

\* C17: between the calls of one caller that makes Peek, Append, FindLast and
\* CollectLast calls only, the counter is absent and no slot is present, or
\* the counter is a number v >= 1 and the present slots are exactly 1..v-1;
\* the counter key never holds an entry.
C17_CounterMatchesSlots ==
    (advanced = 0 /\ Quiet) =>
        \/ TIMDB[0] = Null /\ Present = {}
        \/ /\ TIMDB[0].kind = "text"
           /\ ToNumber(TIMDB[0]) >= 1
           /\ Present = 1..(ToNumber(TIMDB[0]) - 1)

C17_Witness ==
    /\ advanced = 0
    /\ TIMDB[0] = ToString(3)
    /\ Present = {1, 2}
    /\ \E p \in Procs : Returned(p, "FindLast")

(***************************************************************************)
(* Store failures.  A get or put that fails rejects; no helper catches, so *)
(* the call rejects with it.  A put that fails has not landed.             *)
(***************************************************************************)
\* A call rejected: where it was (the await, the slot index) is on record.
RetError(at, idx) == [kind |-> "error", at |-> at, idx |-> idx]

\* Mutant: the rejection is caught and the call carries on: a scan returns
\* what it has, an Append goes on to its slot put.
Thrown_Swallowed(f) ==
    CASE f.op = "FindLast" /\ f.pc = "slot_get" -> Done(f, RetNull)
      [] f.op = "CollectLast" /\ f.pc = "slot_get" -> Done(f, RetList(f.collect))
      [] f.op = "Append" /\ f.pc \in {"counter_get", "counter_put"} ->
            [f EXCEPT !.pc = "slot_put", !.idx = CounterResult(f.first)]
      [] OTHER -> Done(f, RetError(f.pc, f.idx))

\* The frame of a call whose awaited get or put rejected: the helpers have no
\* try/catch, so the call is over and returns nothing.
Thrown(f) == Done(f, RetError(f.pc, f.idx))

\* The store becomes unavailable, or available again.
Outage ==
    /\ down' = ~down
    /\ UNCHANGED <<TIMDB, clock, frame, appended, advanced, peeked, lost>>

\* The get or put a call awaits fails.
StoreFails(p) ==
    /\ down
    /\ ~CanCall(p)
    /\ frame' = [frame EXCEPT ![p] = Thrown(frame[p])]
    /\ lost' = IF frame[p].pc = "slot_put" THEN lost \cup {frame[p].idx} ELSE lost
    /\ UNCHANGED <<TIMDB, clock, appended, advanced, peeked, down>>

\* The helpers, called one at a time, on a store that may fail.
NextFail ==
    \/ Outage
    \/ \E p \in Procs : CallPeek(p)
    \/ \E p \in Procs : CallAdvance(p)
    \/ \E p \in Procs, r \in Requests : CallAppend(p, r)
    \/ \E p \in Procs : CallFindLast(p, IsSwitch)
    \/ \E p \in Procs : CallCollectLast(p, IsSwitch)
    \/ \E p \in Procs : ~down /\ CounterGet(p)
    \/ \E p \in Procs : ~down /\ CounterPut(p)
    \/ \E p \in Procs : ~down /\ SlotPut(p)
    \/ \E p \in Procs : ~down /\ SlotGet(p)
    \/ \E p \in Procs : StoreFails(p)

SpecFail == Init /\ [][NextFail]_vars

\* C13: a slot whose Append failed at the slot put stays absent, and a later
\* scan returns entries from above it only: the items of a CollectLast are
\* those of slots Top, Top - 1, ..., all above the lost slot, and what a
\* FindLast returns is the entry of the highest accepted slot above it.
C13_LostSlot ==
    \A k \in lost :
        /\ TIMDB[k] = Null
        /\ k <= Top
        /\ \A p \in Procs :
              /\ (Returned(p, "CollectLast") /\ frame[p].ret.kind = "list") =>
                    \A i \in 1..Len(frame[p].ret.list) :
                        /\ Top - i + 1 > k
                        /\ frame[p].ret.list[i] = Entry(Top - i + 1)
              /\ (Returned(p, "FindLast") /\ frame[p].ret.kind = "obj") =>
                    LET above == {j \in Matches(frame[p].filter) : j > k} IN
                      /\ above # {}
                      /\ frame[p].ret = RetObj(Entry(Max(above)))

\* Slot 2 was lost; the switch in slot 1 is not found by a later FindLast.
C13_Witness ==
    /\ lost = {2}
    /\ Top = 3
    /\ Matches(IsSwitch) = {1}
    /\ TIMDB[3] # Null
    /\ \E p \in Procs : Returned(p, "FindLast") /\ frame[p].ret = RetNull

\* C14: a slot get that fails during a FindLast or CollectLast ends the call
\* with an error, neither a match nor a list, and the call reads no more.
C14_ReadFailureAborts ==
    [][\A p \in Procs :
          ( /\ StepOf(p, "FindLast") \/ StepOf(p, "CollectLast")
            /\ frame[p].pc = "slot_get"
            /\ down ) =>
             /\ frame'[p].pc = "done"
             /\ frame'[p].ret.kind = "error"
             /\ TIMDB' = TIMDB]_vars

\* A CollectLast failed below slot Top after slot Top had been collected.
C14_Witness ==
    \E p \in Procs :
        /\ Returned(p, "CollectLast")
        /\ frame[p].ret.kind = "error"
        /\ frame[p].ret.at = "slot_get"
        /\ frame[p].ret.idx < Top
        /\ Top \in Matches(frame[p].filter)

\* C20: an Append whose counter get or counter put fails ends with an error
\* at that step, with nothing written by it: its counter get writes nothing
\* and the failing step writes nothing, so no slot key is created or changed.
C20_AppendCounterFailure ==
    [][\A p \in Procs :
          ( /\ StepOf(p, "Append")
            /\ frame[p].pc \in {"counter_get", "counter_put"} ) =>
             /\ frame[p].pc = "counter_get" => TIMDB' = TIMDB
             /\ down =>
                   /\ TIMDB' = TIMDB
                   /\ frame'[p].pc = "done"
                   /\ frame'[p].ret.kind = "error"]_vars

\* After one Append that went through, a second failed at its counter put.
C20_Witness ==
    /\ TIMDB[0] = ToString(2)
    /\ Present = {1}
    /\ Len(appended) = 2
    /\ advanced = 0
    /\ \E p \in Procs :
          /\ Returned(p, "Append")
          /\ frame[p].ret = RetError("counter_put", 0)

(***************************************************************************)
(* Slot values that are not entries.  WritePrefixedCounterValue takes any  *)
(* string as its value and puts it as it is.                               *)
(***************************************************************************)
\* A text that is not JSON.
NotJSON == [kind |-> "malformed", json |-> FALSE]

\* The JSON text of an object that has no meta and no timestamp: '{}'.
EmptyObject == [kind |-> "malformed", json |-> TRUE]

Malformed == {NotJSON, EmptyObject}

\* WritePrefixedCounterValue(prefix, value) with a value that is not the JSON
\* text of an NLLog.
CallWrite(p, v) ==
    /\ CanCall(p)
    /\ Advances < MaxSlot
    /\ frame' = [frame EXCEPT ![p] =
                    [Idle EXCEPT !.op = "Append", !.pc = "counter_get",
                                 !.inc = TRUE, !.value = v]]
    /\ appended' = Append(appended, v)
    /\ UNCHANGED <<TIMDB, clock, advanced, peeked, down, lost>>

\* The loop body of a scan on a slot value that is not an entry.  A text that
\* is not JSON: TIMDB.get(key, 'json') rejects.  The text '{}': val is an
\* object, not null, and JSONToObj hands it on as it is; v.meta.intent throws
\* as v.meta is undefined, and v.timestamp > searchDate is false as
\* v.timestamp is undefined, so that FindLast goes on to the next slot and
\* CollectLast breaks.
MalformedBody(f, val, now) ==
    IF val = NotJSON THEN Thrown(f)
    ELSE IF f.filter.name = "switch" THEN Thrown(f)
    ELSE IF f.op = "FindLast" THEN LoopTest([f EXCEPT !.idx = f.idx - 1], now)
    ELSE ScanEnd(f, now)

\* A scan reads a slot whose value is not an entry.
SlotGetMalformed(p) ==
    /\ frame[p].pc = "slot_get"
    /\ TIMDB[frame[p].idx] \in Malformed
    /\ frame' = [frame EXCEPT ![p] = MalformedBody(frame[p], TIMDB[frame[p].idx], clock)]
    /\ UNCHANGED <<TIMDB, clock, appended, advanced, peeked, down, lost>>

\* The helpers, called one at a time, on a stream that is also written
\* values that are not entries.
NextCorrupt ==
    \/ Tick(MaxLogTicks)
    \/ \E p \in Procs, r \in Requests : CallAppend(p, r)
    \/ \E p \in Procs, v \in Malformed : CallWrite(p, v)
    \/ \E p \in Procs, f \in Filters : CallFindLast(p, f)
    \/ \E p \in Procs, f \in Filters : CallCollectLast(p, f)
    \/ \E p \in Procs : CounterGet(p)
    \/ \E p \in Procs : CounterPut(p)
    \/ \E p \in Procs : SlotPut(p)
    \/ \E p \in Procs : TIMDB[frame[p].idx] \notin Malformed /\ SlotGet(p)
    \/ \E p \in Procs : SlotGetMalformed(p)

SpecCorrupt == Init /\ [][NextCorrupt]_vars

\* The slots at or below the counter that hold no entry.
Stops == {k \in 1..Top : TIMDB[k] = Null \/ TIMDB[k] \in Malformed}

Floor == IF Stops = {} THEN 0 ELSE Max(Stops)

\* The slots above every stop whose entry filter f accepts.
Accepted(f) == {j \in (Floor + 1)..Top : filter(f, Entry(j))}

\* What the scan of frame f returns if each slot that holds no entry is a
\* gap: the scan ends at the highest of them.
AsIfGap(f) ==
    IF f.op = "FindLast"
    THEN IF Accepted(f.filter) = {} THEN RetNull
         ELSE RetObj(Entry(Max(Accepted(f.filter))))
    ELSE LET n == Max({m \in 0..Top : \A i \in 1..m : (Top - i + 1) \in Accepted(f.filter)})
         IN  RetList([i \in 1..n |-> Entry(Top - i + 1)])

\* C19: with a slot value that does not decode into an entry in the stream,
\* a FindLast or CollectLast that has returned did not return an error, and
\* returned what it returns if that slot is missing.
C19_Original ==
    (\E k \in 1..Top : TIMDB[k] \in Malformed) =>
        \A p \in Procs :
            (Returned(p, "FindLast") \/ Returned(p, "CollectLast")) =>
                /\ frame[p].ret.kind # "error"
                /\ frame[p].ret = AsIfGap(frame[p])

(***************************************************************************)
(* One appender and one reader in flight together.                         *)
(***************************************************************************)
\* Caller 1 appends, one Append at a time; caller 2 reads.
NextReader ==
    \/ \E r \in Requests : CallAppend(1, r)
    \/ CallPeek(2)
    \/ CallFindLast(2, IsSwitch)
    \/ CallCollectLast(2, IsSwitch)
    \/ \E p \in Procs : CounterGet(p)
    \/ \E p \in Procs : CounterPut(p)
    \/ \E p \in Procs : SlotPut(p)
    \/ \E p \in Procs : SlotGet(p)

SpecReader == InitRace /\ [][NextReader]_vars

\* The value of the counter: what a Peek now returns.
CounterNow == Top + 1

\* C21: with one appender and readers in flight, no step lowers the counter
\* and no step changes a slot that holds an entry.
C21_Original ==
    [][/\ CounterNow' >= CounterNow
       /\ \A k \in 1..MaxSlot : TIMDB[k] # Null => TIMDB'[k] = TIMDB[k]]_vars

(***************************************************************************)
(* Appends in flight together, and no other call.                          *)
(***************************************************************************)
NextAppend ==
    \/ \E p \in Procs, r \in Requests : CallAppend(p, r)
    \/ \E p \in Procs : CounterGet(p)
    \/ \E p \in Procs : CounterPut(p)
    \/ \E p \in Procs : SlotPut(p)

SpecAppend == InitRace /\ [][NextAppend]_vars

\* C22: with Append calls in flight together, every put at the counter key
\* stores a value greater than or equal to the one the key held: the counter
\* never decreases.  The claim rests what it says of lost entries on this.
C22_Original ==
    [][\A p \in Procs :
          (StepOf(p, "Append") /\ frame[p].pc = "counter_put") =>
              CounterNow' >= CounterNow]_vars

(***************************************************************************)
(* The store answers: a call that awaits a get or a put is given its       *)
(* answer in the end.                                                      *)
(***************************************************************************)
Answer ==
    \E p \in Procs : CounterGet(p) \/ CounterPut(p) \/ SlotPut(p) \/ SlotGet(p)

SpecLive == Init /\ [][Next]_vars /\ WF_vars(Answer)

\* A FindLast or CollectLast is in progress.
Scanning(p) ==
    frame[p].op \in {"FindLast", "CollectLast"} /\ ~CanCall(p)

\* C23: a FindLast or CollectLast returns once the store has answered each of
\* its requests.  The first slot it reads is slot Peek - 1; each slot read
\* after slot idx is slot idx - 1, so no slot is read twice; the slot it reads
\* is one of 1..Peek - 1, so it makes at most Peek - 1 reads and never reads
\* key 0 as an entry.
C23_ScanTerminates ==
    /\ [](\A p \in {1} :
            (Scanning(p) /\ frame[p].pc = "slot_get") => frame[p].idx \in 1..Top)
    /\ [][\A p \in {1} :
            /\ ( /\ StepOf(p, "FindLast") \/ StepOf(p, "CollectLast")
                 /\ frame[p].pc \in {"counter_get", "counter_put"}
                 /\ frame'[p].pc = "slot_get" ) =>
                   frame'[p].idx = CounterNow' - 1
            /\ ( /\ StepOf(p, "FindLast") \/ StepOf(p, "CollectLast")
                 /\ frame[p].pc = "slot_get" ) =>
                   \/ frame'[p].pc = "done"
                   \/ frame'[p].pc = "slot_get" /\ frame'[p].idx = frame[p].idx - 1]_vars
    /\ \A p \in {1} : Scanning(p) ~> (frame[p].pc = "done")

\* A CollectLast read every slot of a 3-slot stream and returned.
C23_Witness ==
    \E p \in Procs :
        /\ Returned(p, "CollectLast")
        /\ Top = 3
        /\ frame[p].ret.kind = "list"
        /\ Len(frame[p].ret.list) = 3

====
